---- MODULE Spec2Model ----
(***************************************************************************)
(* Model of the shopping cart of ervinbani/e-commerce-system               *)
(* (src/src/models/Cart.ts, src/src/models/Product.ts) and of the          *)
(* key-value store slot it persists itself to.                             *)
(*                                                                         *)
(* JavaScript values whose type can vary at run time (what JSON.parse      *)
(* returns, what localStorage.getItem returns) are records tagged with a   *)
(* "type" field.  Values held by the cart in memory are plain integers and *)
(* strings where the stored value was a number or a string, and the tagged *)
(* value itself (undefined, null) otherwise.                               *)
(***************************************************************************)
EXTENDS Integers, Sequences, FiniteSets, Bags, TLC

VARIABLES
    items,      \* Cart.items: sequence of [product, quantity]
    store,      \* localStorage slot "ecommerce_cart": what getItem returns
    last,       \* the most recent Cart call and how it ended
    persisted,  \* no store write has failed since the cart was constructed
    pricing,    \* one application of the pricing functions: inputs and results
    display,    \* what updateCartDisplay last rendered (badge, mini cart, button)
    checkoutSummary, \* the checkout modal: shown or not, and its order summary
    paymentTimers,   \* pending setTimeout callbacks of handleCheckoutSubmit
    buyNowTimers,    \* pending setTimeout callbacks of handleBuyNow
    orderConfirmation, \* the order confirmation the most recent step alerted
    currentSearch,   \* ProductUI.currentSearch
    currentCategory, \* ProductUI.currentCategory
    currentSkip,     \* ProductUI.currentSkip
    searchInput,     \* value of the search box
    categoryFilter,  \* value of the category select
    requests,        \* loadProducts calls awaiting their response (a bag)
    productsGrid,    \* children of the products grid, in document order
    loadMoreBtn,     \* the load-more button is displayed
    loading,         \* the loading spinner is displayed
    errorDiv,        \* the error box is displayed
    event            \* the most recent loader step: the handler or response that ran

cartVars == <<items, store, last, persisted>>

catalogVars ==
    <<currentSearch, currentCategory, currentSkip, searchInput, categoryFilter,
      requests, productsGrid, loadMoreBtn, loading, errorDiv>>

loaderVars ==
    <<currentSearch, currentCategory, currentSkip, searchInput, categoryFilter,
      requests, productsGrid, loadMoreBtn, loading, errorDiv, event>>

pageVars ==
    <<pricing, display, checkoutSummary, paymentTimers, buyNowTimers,
      orderConfirmation, loaderVars>>

vars ==
    <<items, store, last, persisted, pricing, display, checkoutSummary,
      paymentTimers, buyNowTimers, orderConfirmation,
      currentSearch, currentCategory, currentSkip, searchInput, categoryFilter,
      requests, productsGrid, loadMoreBtn, loading, errorDiv, event>>

(***************************************************************************)
(* Bounds of the model.                                                    *)
(***************************************************************************)
\* Largest line quantity the model lets a cart reach.
MaxQuantity == 2

\* Longest stored array handed to the constructor in SpecLoad.
MaxStoredLen == 2

\* Pages the loader is taken through by load-more before a new query.
MaxPages == 2

\* Payments submitted and not yet completed at one time.
MaxPayments == 2

\* Buy Now clicks whose checkout is scheduled and has not run yet.
MaxBuyNow == 1

\* The loadProducts calls that may await their response at one time: an
\* earlier one and the one that overtakes it.
ConcurrentLoads == {"earlier", "later"}

\* Quantity arguments the callers of addItem and updateQuantity pass in the
\* state machine.
QuantityArgs == 0 .. MaxQuantity

\* Quantity arguments the properties of single calls are checked for.
AnyQuantity == (0 - MaxQuantity) .. MaxQuantity

\* Line quantities are kept within this range by the action guards.
QuantityRange == 0 .. MaxQuantity

\* Product ids the callers use.
ProductIds == {1, 2}

(***************************************************************************)
(* JavaScript numbers that carry fractions (prices, percentages, amounts). *)
(* They are binary floating-point numbers: a decimal literal is the        *)
(* nearest representable number, and every arithmetic operation rounds its *)
(* exact result to the nearest representable number, ties to even.  The    *)
(* model keeps the format and its rounding and reduces the precision: a    *)
(* number is m * 2^e with a significand of at most Bits bits, written      *)
(* [m, e] with m odd (or 0 with e = 0), so that equal numbers are equal    *)
(* records.  Ids and quantities are small integers, which the format holds *)
(* exactly, and stay plain integers.                                       *)
(***************************************************************************)
\* Bits of the significand.
Bits == 8

RECURSIVE Pow2(_)
Pow2(k) == IF k <= 0 THEN 1 ELSE 2 * Pow2(k - 1)

RECURSIVE Pow10(_)
Pow10(k) == IF k <= 0 THEN 1 ELSE 10 * Pow10(k - 1)

RECURSIVE NumBits(_)
NumBits(n) == IF n < 2 THEN 1 ELSE 1 + NumBits(n \div 2)

Abs(n) == IF n < 0 THEN 0 - n ELSE n

Min(a, b) == IF a <= b THEN a ELSE b

RECURSIVE Normalize(_, _)
Normalize(m, e) ==
    IF m = 0 THEN [m |-> 0, e |-> 0]
    ELSE IF Abs(m) % 2 = 0 THEN Normalize(m \div 2, e + 1)
    ELSE [m |-> m, e |-> e]

\* The representable number nearest to the exact value (n + f) * 2^e, where
\* 0 <= f < 1 and sticky tells whether f > 0; ties go to the even
\* significand.  With sticky, n has more than Bits bits.
RoundSticky(n, e, sticky) ==
    LET a == Abs(n)
        d == NumBits(a)
        k == IF d > Bits THEN d - Bits ELSE 0
        q == a \div Pow2(k)
        r == a % Pow2(k)
        half == Pow2(k - 1)
        up == /\ k > 0
              /\ \/ r > half
                 \/ r = half /\ (sticky \/ q % 2 = 1)
        rounded == IF up THEN q + 1 ELSE q
    IN  Normalize(IF n < 0 THEN 0 - rounded ELSE rounded, e + k)

Round(n, e) == RoundSticky(n, e, FALSE)

\* The representable number nearest to (n / d) * 2^e, for d > 0: the
\* quotient is taken with two bits more than the significand holds, and the
\* remainder is the sticky bit.
IntDiv(n, d, e) ==
    LET a == Abs(n)
        shift == Bits + 2 + NumBits(d) - NumBits(a)
        s == IF shift > 0 THEN shift ELSE 0
        q == (a * Pow2(s)) \div d
        r == (a * Pow2(s)) % d
    IN  IF a = 0 THEN [m |-> 0, e |-> 0]
        ELSE RoundSticky(IF n < 0 THEN 0 - q ELSE q, e - s, r # 0)

\* The number a decimal literal m * 10^e of the source or of the catalog
\* data denotes.
Dec(m, e) == IF e >= 0 THEN Round(m * Pow10(e), 0) ELSE IntDiv(m, Pow10(0 - e), 0)

FromInt(n) == Round(n, 0)

FMul(a, b) == Round(a.m * b.m, a.e + b.e)

FDiv(a, b) == IntDiv(IF b.m < 0 THEN 0 - a.m ELSE a.m, Abs(b.m), a.e - b.e)

FAdd(a, b) ==
    LET e == Min(a.e, b.e)
    IN  Round(a.m * Pow2(a.e - e) + b.m * Pow2(b.e - e), e)

FSub(a, b) == FAdd(a, [m |-> 0 - b.m, e |-> b.e])

\* Exact comparisons of two numbers of the format.
FLe(a, b) ==
    LET e == Min(a.e, b.e)
    IN  a.m * Pow2(a.e - e) <= b.m * Pow2(b.e - e)

\* |a - b| <= tol, computed exactly.
FWithin(a, b, tol) ==
    LET e == Min(Min(a.e, b.e), tol.e)
    IN  Abs(a.m * Pow2(a.e - e) - b.m * Pow2(b.e - e)) <= tol.m * Pow2(tol.e - e)

\* n units in the last of the Bits places of a.
Ulps(n, a) ==
    IF a.m = 0 THEN [m |-> 0, e |-> 0]
    ELSE Normalize(n, NumBits(Abs(a.m)) + a.e - Bits)

Zero == FromInt(0)

(***************************************************************************)
(* JavaScript values.                                                      *)
(***************************************************************************)
undefined == [type |-> "undefined"]

null == [type |-> "null"]

Num(n) == [type |-> "number", value |-> n]

Str(s) == [type |-> "string", str |-> s]

\* A property read `v.f` throws a TypeError on undefined and null.
CanRead(v) == v.type \notin {"undefined", "null"}

\* `v.f` on an object is the field or undefined; on a primitive, undefined.
Prop(v, f) == IF v.type = "object" /\ f \in DOMAIN v THEN v[f] ELSE undefined

\* The value as the cart holds it in memory.
Mem(v) ==
    IF v.type = "number" THEN v.value
    ELSE IF v.type = "string" THEN v.str
    ELSE v

\* JavaScript falsiness, as used by `data.brand || "No Brand"`.
Falsy(v) ==
    \/ v.type \in {"undefined", "null"}
    \/ v.type = "string" /\ v.str = ""
    \/ v.type = "number" /\ v.value = 0

(***************************************************************************)
(* Catalog records as the API returns them (IProduct), as JSON objects.    *)
(***************************************************************************)
ProductData(id, category, price, discountPercentage, brand) ==
    [type |-> "object", id |-> id, category |-> category, price |-> price,
     discountPercentage |-> discountPercentage, brand |-> brand]

\* Two catalog records; the second comes without a brand.
CatalogData ==
    << ProductData(Num(1), Str("groceries"), Num(Dec(100, 0)), Num(Dec(10, 0)),
                   Str("Acme")),
       ProductData(Num(2), Str("electronics"), Num(Dec(200, 0)), Num(Dec(0, 0)),
                   undefined) >>

\* Record 1 after the catalog changed its price and discount.
ChangedData ==
    ProductData(Num(1), Str("groceries"), Num(Dec(120, 0)), Num(Dec(20, 0)),
                Str("Acme"))

(***************************************************************************)
(* Product.constructor: copies every field, brand falls back to "No Brand".*)
(* Reading a field of undefined or null throws.                            *)
(***************************************************************************)
ProductThrows(data) == ~CanRead(data)

Product(data) ==
    [id |-> Mem(Prop(data, "id")),
     category |-> Mem(Prop(data, "category")),
     price |-> Mem(Prop(data, "price")),
     discountPercentage |-> Mem(Prop(data, "discountPercentage")),
     brand |-> IF Falsy(Prop(data, "brand")) THEN "No Brand"
               ELSE Mem(Prop(data, "brand"))]

\* The Product instances the callers hand to the cart in the state machine.
Products == {Product(CatalogData[i]) : i \in 1 .. Len(CatalogData)}

\* Those, and the instance built from the changed record.
AnyProduct == Products \cup {Product(ChangedData)}

\* The literal 100 of the percentage computations.
Hundred == FromInt(100)

\* Product.getPriceWithDiscount.
getPriceWithDiscountIgnoresDiscount(product) == product.price

getPriceWithDiscount(product) ==
    LET discountAmount ==
            FDiv(FMul(product.price, product.discountPercentage), Hundred)
    IN  FSub(product.price, discountAmount)

(***************************************************************************)
(* utils/discountCalculator.ts.                                            *)
(***************************************************************************)
calculateDiscount(price, discountPercentage) ==
    FDiv(FMul(price, discountPercentage), Hundred)

\* String.prototype.toLowerCase on the category names the model uses: the
\* upper-case letters of a name are replaced, every other character stays.
toLowerCase(s) ==
    CASE s = "Groceries" -> "groceries"
      [] s = "GROCERIES" -> "groceries"
      [] s = "Electronics" -> "electronics"
      [] s = "Grocery" -> "grocery"
      [] OTHER -> s

\* The literals 0.03 and 0.0475.
GroceriesRate == Dec(3, -2)

StandardRate == Dec(475, -4)

calculateTaxCaseSensitive(price, category) ==
    LET taxRate == IF category = "groceries" THEN GroceriesRate ELSE StandardRate
    IN  FMul(price, taxRate)

calculateTax(price, category) ==
    LET taxRate == IF toLowerCase(category) = "groceries"
                   THEN GroceriesRate ELSE StandardRate
    IN  FMul(price, taxRate)

(***************************************************************************)
(* The store slot.  getItem returns null when the key is absent, else the  *)
(* stored string, modelled by what JSON.parse makes of it: "empty" (the    *)
(* empty string), "invalid" (not JSON), or the JSON value.                 *)
(***************************************************************************)
StoreText(text) == [type |-> "string", text |-> text]

EmptyText == [type |-> "empty"]

InvalidText == [type |-> "invalid"]

JSONArray(elems) == [type |-> "array", elems |-> elems]

\* `if (cartData)`: null and the empty string are falsy.
Truthy(cartData) == cartData.type = "string" /\ cartData.text.type # "empty"

\* JSON.parse throws a SyntaxError on text that is not JSON.
ParseThrows(text) == text.type \in {"empty", "invalid"}

\* JSON.stringify of the array built by saveToStorage.
JSONstringify(cartData) == StoreText(JSONArray(cartData))

(***************************************************************************)
(* Cart.saveToStorage: serialises every line as {productData, quantity}    *)
(* and writes the slot; a failing setItem (ok = FALSE) is caught and       *)
(* logged, the slot keeps its old content.                                 *)
(***************************************************************************)
LineData(item) ==
    [type |-> "object",
     productData |-> ProductData(Num(item.product.id),
                                 Str(item.product.category),
                                 Num(item.product.price),
                                 Num(item.product.discountPercentage),
                                 Str(item.product.brand)),
     quantity |-> Num(item.quantity)]

CartData(its) == [i \in 1 .. Len(its) |-> LineData(its[i])]

\* saveToStorage without the try/catch around setItem.
saveToStorageRethrows(its, st, ok) ==
    [store |-> IF ok THEN JSONstringify(CartData(its)) ELSE st,
     write |-> IF ok THEN "ok" ELSE "failed",
     threw |-> ~ok]

\* saveToStorage that skips the write when the cart is empty.
saveToStorageSkipsEmpty(its, st, ok) ==
    [store |-> IF ok /\ Len(its) > 0 THEN JSONstringify(CartData(its)) ELSE st,
     write |-> IF ok THEN "ok" ELSE "failed",
     threw |-> FALSE]

saveToStorage(its, st, ok) ==
    [store |-> IF ok THEN JSONstringify(CartData(its)) ELSE st,
     write |-> IF ok THEN "ok" ELSE "failed",
     threw |-> FALSE]

(***************************************************************************)
(* Cart.loadFromStorage: rebuilds the lines from the slot; anything thrown *)
(* inside the try block is caught and the cart is reset to empty.          *)
(***************************************************************************)
\* The map callback throws when `item.productData` cannot be read or when
\* the Product constructor throws.
LineThrows(item) == ~CanRead(item) \/ ProductThrows(Prop(item, "productData"))

\* The map callback that forgets the stored quantity.
LineOfQuantityOne(item) ==
    [product |-> Product(Prop(item, "productData")), quantity |-> 1]

LineOf(item) ==
    [product |-> Product(Prop(item, "productData")),
     quantity |-> Mem(Prop(item, "quantity"))]

\* JSON.parse throws, or `parsedData.map` is not callable, or a callback throws.
LoadThrows(cartData) ==
    \/ ParseThrows(cartData.text)
    \/ cartData.text.type # "array"
    \/ \E i \in 1 .. Len(cartData.text.elems) : LineThrows(cartData.text.elems[i])

loadFromStorage(its, st) ==
    [items |-> IF ~Truthy(st) THEN its
               ELSE IF LoadThrows(st) THEN << >>
               ELSE [i \in 1 .. Len(st.text.elems) |-> LineOf(st.text.elems[i])],
     threw |-> FALSE]

\* Cart.constructor: `items = []`, then loadFromStorage().
constructor(st) == loadFromStorage(<< >>, st)

(***************************************************************************)
(* Cart operations.  Each returns the lines and the slot after the call,   *)
(* whether a store write was attempted and how it ended, and whether an    *)
(* exception reached the caller.                                           *)
(***************************************************************************)
\* Array.prototype.find on product id: index of the first match, 0 if none.
Find(its, productId) ==
    IF \E i \in 1 .. Len(its) : its[i].product.id = productId
    THEN CHOOSE i \in 1 .. Len(its) :
            /\ its[i].product.id = productId
            /\ \A j \in 1 .. i - 1 : its[j].product.id # productId
    ELSE 0

Saved(its, st, ok) ==
    LET s == saveToStorage(its, st, ok)
    IN  [items |-> its, store |-> s.store, write |-> s.write, threw |-> s.threw]

\* addItem that never looks for an existing line.
addItemAlwaysPushes(its, st, product, quantity, ok) ==
    Saved(Append(its, [product |-> product, quantity |-> quantity]), st, ok)

\* addItem that overwrites the quantity of an existing line.
addItemOverwrites(its, st, product, quantity, ok) ==
    LET i == Find(its, product.id)
        its2 == IF i # 0
                THEN [its EXCEPT ![i].quantity = quantity]
                ELSE Append(its, [product |-> product, quantity |-> quantity])
    IN  Saved(its2, st, ok)

addItemRefreshesSnapshot(its, st, product, quantity, ok) ==
    LET i == Find(its, product.id)
        its2 == IF i # 0
                THEN [its EXCEPT ![i] = [product |-> product,
                                         quantity |-> @.quantity + quantity]]
                ELSE Append(its, [product |-> product, quantity |-> quantity])
    IN  Saved(its2, st, ok)

addItemInsertsFirst(its, st, product, quantity, ok) ==
    LET i == Find(its, product.id)
        its2 == IF i # 0
                THEN [its EXCEPT ![i].quantity = @ + quantity]
                ELSE <<[product |-> product, quantity |-> quantity]>> \o its
    IN  Saved(its2, st, ok)

addItem(its, st, product, quantity, ok) ==
    LET i == Find(its, product.id)
        its2 == IF i # 0
                THEN [its EXCEPT ![i].quantity = @ + quantity]
                ELSE Append(its, [product |-> product, quantity |-> quantity])
    IN  Saved(its2, st, ok)

\* removeItem whose filter keeps the matching line instead of the others.
removeItemKeepsMatch(its, st, productId, ok) ==
    Saved(SelectSeq(its, LAMBDA item : item.product.id = productId), st, ok)

removeItem(its, st, productId, ok) ==
    Saved(SelectSeq(its, LAMBDA item : item.product.id # productId), st, ok)

\* updateQuantity without the quantity <= 0 branch.
updateQuantityStoresAny(its, st, productId, quantity, ok) ==
    LET i == Find(its, productId)
    IN  IF i = 0
        THEN [items |-> its, store |-> st, write |-> "none", threw |-> FALSE]
        ELSE Saved([its EXCEPT ![i].quantity = quantity], st, ok)

\* updateQuantity that adds to the line's quantity.
updateQuantityAdds(its, st, productId, quantity, ok) ==
    LET i == Find(its, productId)
    IN  IF i = 0
        THEN [items |-> its, store |-> st, write |-> "none", threw |-> FALSE]
        ELSE IF quantity <= 0
        THEN removeItem(its, st, productId, ok)
        ELSE Saved([its EXCEPT ![i].quantity = @ + quantity], st, ok)

updateQuantity(its, st, productId, quantity, ok) ==
    LET i == Find(its, productId)
    IN  IF i = 0
        THEN [items |-> its, store |-> st, write |-> "none", threw |-> FALSE]
        ELSE IF quantity <= 0
        THEN removeItem(its, st, productId, ok)
        ELSE Saved([its EXCEPT ![i].quantity = quantity], st, ok)

clear(its, st, ok) == Saved(<< >>, st, ok)

getItems(its) == its

\* The reduce of each accessor, over the first n lines in order.
RECURSIVE ItemCountReduce(_, _)
ItemCountReduce(its, n) ==
    IF n = 0 THEN 0 ELSE ItemCountReduce(its, n - 1) + its[n].quantity

getItemCount(its) == ItemCountReduce(its, Len(its))

RECURSIVE SubtotalReduce(_, _)
SubtotalReduce(its, n) ==
    IF n = 0 THEN Zero
    ELSE FAdd(SubtotalReduce(its, n - 1),
              FMul(getPriceWithDiscount(its[n].product), FromInt(its[n].quantity)))

getSubtotal(its) == SubtotalReduce(its, Len(its))

RECURSIVE TotalTaxOnListPrice(_, _)
TotalTaxOnListPrice(its, n) ==
    IF n = 0 THEN Zero
    ELSE FAdd(TotalTaxOnListPrice(its, n - 1),
              FMul(calculateTax(its[n].product.price, its[n].product.category),
                   FromInt(its[n].quantity)))

RECURSIVE TotalTaxReduce(_, _)
TotalTaxReduce(its, n) ==
    IF n = 0 THEN Zero
    ELSE LET priceAfterDiscount == getPriceWithDiscount(its[n].product)
             taxAmount == calculateTax(priceAfterDiscount, its[n].product.category)
         IN  FAdd(TotalTaxReduce(its, n - 1),
                  FMul(taxAmount, FromInt(its[n].quantity)))

getTotalTaxOnListPrice(its) == TotalTaxOnListPrice(its, Len(its))

getTotalTax(its) == TotalTaxReduce(its, Len(its))

getTotalWithoutTax(its) == getSubtotal(its)

getTotal(its) == FAdd(getSubtotal(its), getTotalTax(its))

RECURSIVE TotalSavingsReduce(_, _)
TotalSavingsReduce(its, n) ==
    IF n = 0 THEN Zero
    ELSE LET discount ==
                 FDiv(FMul(its[n].product.price,
                          its[n].product.discountPercentage), Hundred)
         IN  FAdd(TotalSavingsReduce(its, n - 1),
                  FMul(discount, FromInt(its[n].quantity)))

getTotalSavingsIsZero(its) == Zero

getTotalSavings(its) == TotalSavingsReduce(its, Len(its))

isEmpty(its) == Len(its) = 0

(***************************************************************************)
(* ProductUI: what the page shows of the cart.                             *)
(***************************************************************************)
\* Number.prototype.toFixed(digits): the decimal text with that many
\* fraction digits nearest to the number, the larger one on a tie.  The text
\* is kept as the integer it shows once the decimal point is dropped.
toFixed(a, digits) ==
    LET n == Abs(a.m) * Pow10(digits)
        q == IF a.e >= 0 THEN n * Pow2(a.e) ELSE n \div Pow2(0 - a.e)
        r == IF a.e >= 0 THEN 0 ELSE n % Pow2(0 - a.e)
        up == IF a.e < 0 /\ 2 * r >= Pow2(0 - a.e) THEN 1 ELSE 0
    IN  IF a.m < 0 THEN 0 - (q + up) ELSE q + up

LineIds(its) == [i \in 1 .. Len(its) |-> its[i].product.id]

updateCartDisplayButtonAlwaysEnabled(its) ==
    [cartCount |-> getItemCount(its),
     lines |-> LineIds(getItems(its)),
     checkoutBtnDisabled |-> FALSE,
     cartSubtotal |-> toFixed(getSubtotal(its), 2),
     cartTax |-> toFixed(getTotalTax(its), 2),
     cartTotal |-> toFixed(getTotal(its), 2)]

updateCartDisplay(its) ==
    [cartCount |-> getItemCount(its),
     lines |-> LineIds(getItems(its)),
     checkoutBtnDisabled |-> (Len(getItems(its)) = 0),
     cartSubtotal |-> toFixed(getSubtotal(its), 2),
     cartTax |-> toFixed(getTotalTax(its), 2),
     cartTotal |-> toFixed(getTotal(its), 2)]

openCheckoutModal(its) ==
    [active |-> TRUE,
     checkoutSubtotal |-> toFixed(getSubtotal(its), 2),
     checkoutTax |-> toFixed(getTotalTax(its), 2),
     checkoutSavings |-> toFixed(getTotalSavings(its), 2),
     checkoutTotal |-> toFixed(getTotal(its), 2)]

\* The page before any script ran: empty badge and summary, button enabled,
\* modal hidden.
NoDisplay ==
    [cartCount |-> 0, lines |-> << >>, checkoutBtnDisabled |-> FALSE,
     cartSubtotal |-> 0, cartTax |-> 0, cartTotal |-> 0]

NoCheckoutSummary ==
    [active |-> FALSE, checkoutSubtotal |-> 0, checkoutTax |-> 0,
     checkoutSavings |-> 0, checkoutTotal |-> 0]

closeCheckoutModal(summary) == [summary EXCEPT !.active = FALSE]

(***************************************************************************)
(* The rendering of a cart depends on the cart alone.  For the carts the   *)
(* page can hold within the bounds it is computed once and looked up; the  *)
(* checkout summary of any other cart is computed on the spot.             *)
(***************************************************************************)
BoundedCarts ==
    UNION {[1 .. n -> [product : Products, quantity : QuantityRange]] :
           n \in 0 .. Cardinality(Products)}

RenderedCarts == [its \in BoundedCarts |-> updateCartDisplay(its)] @@ << >>

Rendered(its) == RenderedCarts[its]

OpenedSummaries == [its \in BoundedCarts |-> openCheckoutModal(its)] @@ << >>

Opened(its) ==
    IF its \in BoundedCarts THEN OpenedSummaries[its] ELSE openCheckoutModal(its)

\* No alert.
NoConfirmation == [shown |-> FALSE, itemCount |-> 0, total |-> 0]

\* The order summary the timer callback of handleCheckoutSubmit alerts: the
\* item count and the total of the cart it is given.
orderSummary(its) ==
    [shown |-> TRUE, itemCount |-> getItemCount(its),
     total |-> toFixed(getTotal(its), 2)]

NoPricing ==
    [phase |-> "none", price |-> Zero, discountPercentage |-> Zero,
     category |-> "", discount |-> Zero, priceWithDiscount |-> Zero,
     tax |-> Zero]

(***************************************************************************)
(* ProductUI: the catalog loader.                                          *)
(***************************************************************************)
\* ProductUI.limit, the page size.
limit == 12

\* String.prototype.trim on the texts the model types into the search box:
\* leading and trailing blanks are dropped.
trim(s) ==
    CASE s = " phone " -> "phone"
      [] s = " " -> ""
      [] OTHER -> s

\* What ApiService fetches for one loadProducts call, with the append flag
\* the call carries to displayProducts.
NoRequest ==
    [path |-> "none", q |-> "", category |-> "", paged |-> FALSE,
     limit |-> 0, skip |-> 0, append |-> FALSE]

loadProductsIgnoresSearch(search, category, skip, append) ==
    [NoRequest EXCEPT !.path = "products", !.paged = TRUE, !.limit = limit,
                      !.skip = skip, !.append = append]

loadProductsAlwaysReplaces(search, category, skip, append) ==
    IF search # ""
    THEN [NoRequest EXCEPT !.path = "products/search", !.q = search]
    ELSE IF category # ""
    THEN [NoRequest EXCEPT !.path = "products/category", !.category = category,
                           !.paged = TRUE, !.limit = limit, !.skip = skip]
    ELSE [NoRequest EXCEPT !.path = "products", !.paged = TRUE, !.limit = limit,
                           !.skip = skip]

loadProductsUnpagedCategory(search, category, skip, append) ==
    IF search # ""
    THEN [NoRequest EXCEPT !.path = "products/search", !.q = search,
                           !.append = append]
    ELSE IF category # ""
    THEN [NoRequest EXCEPT !.path = "products/category", !.category = category,
                           !.append = append]
    ELSE [NoRequest EXCEPT !.path = "products", !.paged = TRUE, !.limit = limit,
                           !.skip = skip, !.append = append]

loadProductsPagedSearch(search, category, skip, append) ==
    IF search # ""
    THEN [NoRequest EXCEPT !.path = "products/search", !.q = search,
                           !.paged = TRUE, !.limit = limit, !.skip = skip,
                           !.append = append]
    ELSE IF category # ""
    THEN [NoRequest EXCEPT !.path = "products/category", !.category = category,
                           !.paged = TRUE, !.limit = limit, !.skip = skip,
                           !.append = append]
    ELSE [NoRequest EXCEPT !.path = "products", !.paged = TRUE, !.limit = limit,
                           !.skip = skip, !.append = append]

\* loadProducts up to its await: the request it sends.
loadProducts(search, category, skip, append) ==
    IF search # ""
    THEN [NoRequest EXCEPT !.path = "products/search", !.q = search,
                           !.append = append]
    ELSE IF category # ""
    THEN [NoRequest EXCEPT !.path = "products/category", !.category = category,
                           !.paged = TRUE, !.limit = limit, !.skip = skip,
                           !.append = append]
    ELSE [NoRequest EXCEPT !.path = "products", !.paged = TRUE, !.limit = limit,
                           !.skip = skip, !.append = append]

\* The catalog behind the API: how many products each query matches.
TotalMatches(rq) ==
    CASE rq.path = "products" -> 24
      [] rq.path = "products/category" -> (IF rq.category = "beauty" THEN 14 ELSE 12)
      [] rq.path = "products/search" -> (IF rq.q = "phone" THEN 12 ELSE 0)
      [] OTHER -> 0

\* The card of the index-th product a query matches.
Card(rq, index) ==
    [type |-> "card", path |-> rq.path, q |-> rq.q, category |-> rq.category,
     index |-> index]

\* The "No products found." paragraph.
NoProductsMessage ==
    [type |-> "message", path |-> "", q |-> "", category |-> "", index |-> 0]

\* response.products of a successful fetch: a paged request gets the matches
\* after the first skip ones, at most limit of them; a search gets them all.
ResponseProducts(rq) ==
    LET total == TotalMatches(rq)
        rest == IF total > rq.skip THEN total - rq.skip ELSE 0
        n == IF rq.paged THEN Min(rq.limit, rest) ELSE total
    IN  [i \in 1 .. n |-> Card(rq, (IF rq.paged THEN rq.skip ELSE 0) + i)]

displayProductsKeepsButton(grid, productsData, append) ==
    LET kept == IF ~append THEN << >> ELSE grid
    IN  IF Len(productsData) = 0
        THEN [grid |-> <<NoProductsMessage>>, loadMoreBtn |-> FALSE]
        ELSE [grid |-> kept \o productsData, loadMoreBtn |-> TRUE]

\* ProductUI.displayProducts: the grid and the load-more button after
\* rendering one response.
displayProducts(grid, productsData, append) ==
    LET kept == IF ~append THEN << >> ELSE grid
    IN  IF Len(productsData) = 0
        THEN [grid |-> <<NoProductsMessage>>, loadMoreBtn |-> FALSE]
        ELSE [grid |-> kept \o productsData,
              loadMoreBtn |-> (Len(productsData) >= limit)]

Event(op, rq) == [op |-> op, request |-> rq]

NoEvent == Event("none", NoRequest)

\* A page without a catalog loader.
NoLoader ==
    /\ currentSearch = ""
    /\ currentCategory = ""
    /\ currentSkip = 0
    /\ searchInput = ""
    /\ categoryFilter = ""
    /\ requests = EmptyBag
    /\ productsGrid = << >>
    /\ loadMoreBtn = FALSE
    /\ loading = FALSE
    /\ errorDiv = FALSE
    /\ event = NoEvent

\* A Cart used without a page.
NoPage ==
    /\ pricing = NoPricing
    /\ display = NoDisplay
    /\ checkoutSummary = NoCheckoutSummary
    /\ paymentTimers = 0
    /\ buyNowTimers = 0
    /\ orderConfirmation = NoConfirmation
    /\ NoLoader

(***************************************************************************)
(* State machine of one Cart instance and its store slot.                  *)
(***************************************************************************)
Call(op, productId, quantity, found, r) ==
    [op |-> op, productId |-> productId, quantity |-> quantity,
     found |-> found, write |-> r.write, threw |-> r.threw]

HasLine(its, productId) == Find(its, productId) # 0

WithinBounds(its) == \A i \in 1 .. Len(its) : its[i].quantity \in QuantityRange

\* Slot contents no Cart wrote that a fresh page can find: no key, text that
\* is not JSON, JSON that is not an array.
InitialStores == {null, StoreText(InvalidText), StoreText(Num(7))}

Init ==
    /\ store \in InitialStores
    /\ items = constructor(store).items
    /\ last = [op |-> "constructor", productId |-> 0, quantity |-> 0,
               found |-> FALSE, write |-> "none", threw |-> constructor(store).threw]
    /\ persisted = TRUE
    /\ NoPage

\* A page load constructs a new Cart on the same store.
Construct ==
    LET r == constructor(store)
    IN  /\ items' = r.items
        /\ last' = [op |-> "constructor", productId |-> 0, quantity |-> 0,
                    found |-> FALSE, write |-> "none", threw |-> r.threw]
        /\ persisted' = TRUE
        /\ UNCHANGED <<store, pageVars>>

AddItem ==
    \E product \in Products, quantity \in QuantityArgs, ok \in BOOLEAN :
        LET r == addItem(items, store, product, quantity, ok)
        IN  /\ WithinBounds(r.items)
            /\ items' = r.items
            /\ store' = r.store
            /\ last' = Call("addItem", product.id, quantity,
                            HasLine(items, product.id), r)
            /\ persisted' = (persisted /\ r.write # "failed")
            /\ UNCHANGED pageVars

RemoveItem ==
    \E productId \in ProductIds, ok \in BOOLEAN :
        LET r == removeItem(items, store, productId, ok)
        IN  /\ items' = r.items
            /\ store' = r.store
            /\ last' = Call("removeItem", productId, 0,
                            HasLine(items, productId), r)
            /\ persisted' = (persisted /\ r.write # "failed")
            /\ UNCHANGED pageVars

UpdateQuantity ==
    \E productId \in ProductIds, quantity \in QuantityArgs, ok \in BOOLEAN :
        LET r == updateQuantity(items, store, productId, quantity, ok)
        IN  /\ items' = r.items
            /\ store' = r.store
            /\ last' = Call("updateQuantity", productId, quantity,
                            HasLine(items, productId), r)
            /\ persisted' = (persisted /\ r.write # "failed")
            /\ UNCHANGED pageVars

Clear ==
    \E ok \in BOOLEAN :
        LET r == clear(items, store, ok)
        IN  /\ items' = r.items
            /\ store' = r.store
            /\ last' = Call("clear", 0, 0, FALSE, r)
            /\ persisted' = (persisted /\ r.write # "failed")
            /\ UNCHANGED pageVars

Next ==
    \/ Construct
    \/ AddItem
    \/ RemoveItem
    \/ UpdateQuantity
    \/ Clear

Spec == Init /\ [][Next]_vars

(***************************************************************************)
(* Construction of a Cart on a slot holding any value: the specification   *)
(* of the constructor alone.  The slot holds no key, the empty string,     *)
(* text that is not JSON, JSON that is not an array, or an array of at     *)
(* most MaxStoredLen elements of the shapes below.                         *)
(***************************************************************************)
LineObject(productData, quantity) ==
    [type |-> "object", productData |-> productData, quantity |-> quantity]

EmptyObject == ProductData(undefined, undefined, undefined, undefined, undefined)

ElemShapes ==
    << null,
       Num(7),
       LineObject(undefined, undefined),
       LineObject(null, Num(1)),
       LineObject(EmptyObject, Num(1)),
       LineObject(Num(5), Num(1)),
       LineObject(CatalogData[1], undefined),
       LineObject(CatalogData[1], Str("2")),
       LineObject(CatalogData[1], Num(1)),
       LineObject(CatalogData[2], Num(2)) >>

StoredArrayShapes ==
    UNION {[1 .. n -> 1 .. Len(ElemShapes)] : n \in 0 .. MaxStoredLen}

StoredArray(shape) ==
    StoreText(JSONArray([i \in 1 .. Len(shape) |-> ElemShapes[shape[i]]]))

NonArrayStores ==
    << null, StoreText(EmptyText), StoreText(InvalidText), StoreText(null),
       StoreText(Num(7)), StoreText(LineObject(undefined, undefined)) >>

InitLoad ==
    /\ \/ \E k \in 1 .. Len(NonArrayStores) : store = NonArrayStores[k]
       \/ \E shape \in StoredArrayShapes : store = StoredArray(shape)
    /\ items = << >>
    /\ last = [op |-> "none", productId |-> 0, quantity |-> 0,
               found |-> FALSE, write |-> "none", threw |-> FALSE]
    /\ persisted = TRUE
    /\ NoPage

NextLoad == Construct

SpecLoad == InitLoad /\ [][NextLoad]_vars

PricedProduct(id, category, price, discountPercentage) ==
    Product(ProductData(Num(id), Str(category), Num(price),
                        Num(discountPercentage), undefined))

(***************************************************************************)
(* One Cart used with three catalog products, so that its lines can stand  *)
(* in any order and a removal can leave two of them; every store write     *)
(* succeeds.                                                               *)
(***************************************************************************)
OrderIds == {1, 2, 3}

OrderProducts ==
    {PricedProduct(id, "groceries", Dec(100, 0), Dec(0, 0)) : id \in OrderIds}

InitOrder ==
    /\ store = null
    /\ items = constructor(store).items
    /\ last = [op |-> "constructor", productId |-> 0, quantity |-> 0,
               found |-> FALSE, write |-> "none", threw |-> constructor(store).threw]
    /\ persisted = TRUE
    /\ NoPage

AddLine ==
    \E product \in OrderProducts, quantity \in 1 .. MaxQuantity :
        LET r == addItem(items, store, product, quantity, TRUE)
        IN  /\ WithinBounds(r.items)
            /\ items' = r.items
            /\ store' = r.store
            /\ last' = Call("addItem", product.id, quantity,
                            HasLine(items, product.id), r)
            /\ UNCHANGED <<persisted, pageVars>>

RemoveLine ==
    \E productId \in OrderIds :
        LET r == removeItem(items, store, productId, TRUE)
        IN  /\ items' = r.items
            /\ store' = r.store
            /\ last' = Call("removeItem", productId, 0,
                            HasLine(items, productId), r)
            /\ UNCHANGED <<persisted, pageVars>>

UpdateLine ==
    \E productId \in OrderIds, quantity \in 1 .. MaxQuantity :
        LET r == updateQuantity(items, store, productId, quantity, TRUE)
        IN  /\ items' = r.items
            /\ store' = r.store
            /\ last' = Call("updateQuantity", productId, quantity,
                            HasLine(items, productId), r)
            /\ UNCHANGED <<persisted, pageVars>>

NextOrder ==
    \/ AddLine
    \/ RemoveLine
    \/ UpdateLine

SpecOrder == InitOrder /\ [][NextOrder]_vars

(***************************************************************************)
(* The pricing functions applied to one price, discount percentage and     *)
(* category: the inputs are drawn from bounded sets, Calculate applies     *)
(* calculateDiscount, Product.getPriceWithDiscount and calculateTax.       *)
(***************************************************************************)
PriceInputs ==
    {Dec(0, 0), Dec(5, -2), Dec(275, -2), Dec(999, -2), Dec(100, 0), Dec(1999, -1)}

DiscountInputs ==
    {Dec(0, 0), Dec(9, 0), Dec(10, 0), Dec(125, -1), Dec(50, 0), Dec(100, 0)}

CategoryInputs ==
    {"groceries", "Groceries", "GROCERIES", "Grocery", "Electronics", "beauty"}

InitPricing ==
    /\ store = null
    /\ items = constructor(store).items
    /\ last = [op |-> "constructor", productId |-> 0, quantity |-> 0,
               found |-> FALSE, write |-> "none", threw |-> FALSE]
    /\ persisted = TRUE
    /\ \E price \in PriceInputs, discountPercentage \in DiscountInputs,
          category \in CategoryInputs :
            pricing = [NoPricing EXCEPT !.phase = "input", !.price = price,
                           !.discountPercentage = discountPercentage,
                           !.category = category]
    /\ display = NoDisplay
    /\ checkoutSummary = NoCheckoutSummary
    /\ paymentTimers = 0
    /\ buyNowTimers = 0
    /\ orderConfirmation = NoConfirmation
    /\ NoLoader

Calculate ==
    /\ pricing.phase = "input"
    /\ LET product == PricedProduct(1, pricing.category, pricing.price,
                                    pricing.discountPercentage)
       IN  pricing' =
               [pricing EXCEPT
                   !.phase = "done",
                   !.discount = calculateDiscount(pricing.price,
                                                  pricing.discountPercentage),
                   !.priceWithDiscount = getPriceWithDiscount(product),
                   !.tax = calculateTax(pricing.price, pricing.category)]
    /\ UNCHANGED <<cartVars, display, checkoutSummary, paymentTimers,
                 buyNowTimers, orderConfirmation, loaderVars>>

NextPricing == Calculate

SpecPricing == InitPricing /\ [][NextPricing]_vars

(***************************************************************************)
(* The checkout modal over carts of priced products: a page loaded on a    *)
(* store that holds any cart of up to two lines whose products carry       *)
(* prices and discounts with fractions.                                    *)
(***************************************************************************)
TotalsPrices == {Dec(5, -2), Dec(999, -2), Dec(100, 0)}

TotalsDiscounts == {Dec(0, 0), Dec(10, 0), Dec(100, 0)}

TotalsCategories == {"Groceries", "electronics"}

PricedLines(id) ==
    {[product |-> PricedProduct(id, category, price, discountPercentage),
      quantity |-> quantity] :
        category \in TotalsCategories, price \in TotalsPrices,
        discountPercentage \in TotalsDiscounts, quantity \in 1 .. MaxQuantity}

PricedCarts ==
    {<< >>}
    \cup {<<line>> : line \in PricedLines(1) \cup PricedLines(2)}
    \cup {<<first, second>> : first \in PricedLines(1), second \in PricedLines(2)}
    \cup {<<first, second>> : first \in PricedLines(2), second \in PricedLines(1)}

\* The page after ProductUI's constructor ran on a store a Cart wrote.
InitTotals ==
    /\ \E its \in PricedCarts : store = saveToStorage(its, null, TRUE).store
    /\ items = constructor(store).items
    /\ last = [op |-> "constructor", productId |-> 0, quantity |-> 0,
               found |-> FALSE, write |-> "none", threw |-> constructor(store).threw]
    /\ persisted = TRUE
    /\ pricing = NoPricing
    /\ display = updateCartDisplay(items)
    /\ checkoutSummary = NoCheckoutSummary
    /\ paymentTimers = 0
    /\ buyNowTimers = 0
    /\ orderConfirmation = NoConfirmation
    /\ NoLoader

HandleCheckoutDrainsItems ==
    /\ ~display.checkoutBtnDisabled
    /\ checkoutSummary' = IF ~isEmpty(items) THEN Opened(items)
                          ELSE checkoutSummary
    /\ items' = << >>
    /\ event' = Event("handleCheckout", NoRequest)
    /\ orderConfirmation' = NoConfirmation
    /\ UNCHANGED <<store, last, persisted, pricing, display, paymentTimers,
                   buyNowTimers, catalogVars>>

\* A click on the checkout button, which a disabled button does not deliver.
HandleCheckout ==
    /\ ~display.checkoutBtnDisabled
    /\ checkoutSummary' = IF ~isEmpty(items) THEN Opened(items)
                          ELSE checkoutSummary
    /\ event' = Event("handleCheckout", NoRequest)
    /\ orderConfirmation' = NoConfirmation
    /\ UNCHANGED <<cartVars, pricing, display, paymentTimers, buyNowTimers, catalogVars>>

CloseCheckoutModalCancelsPayment ==
    /\ checkoutSummary.active
    /\ checkoutSummary' = closeCheckoutModal(checkoutSummary)
    /\ paymentTimers' = 0
    /\ event' = Event("closeCheckoutModal", NoRequest)
    /\ orderConfirmation' = NoConfirmation
    /\ UNCHANGED <<cartVars, pricing, display, buyNowTimers, catalogVars>>

\* The close and cancel buttons of the shown modal.
CloseCheckoutModal ==
    /\ checkoutSummary.active
    /\ checkoutSummary' = closeCheckoutModal(checkoutSummary)
    /\ event' = Event("closeCheckoutModal", NoRequest)
    /\ orderConfirmation' = NoConfirmation
    /\ UNCHANGED <<cartVars, pricing, display, paymentTimers, buyNowTimers, catalogVars>>

HandleCheckoutSubmitClearsCart ==
    /\ checkoutSummary.active
    /\ paymentTimers < MaxPayments
    /\ paymentTimers' = paymentTimers + 1
    /\ items' = clear(items, store, TRUE).items
    /\ store' = clear(items, store, TRUE).store
    /\ last' = Call("clear", 0, 0, FALSE, clear(items, store, TRUE))
    /\ display' = Rendered(items')
    /\ event' = Event("handleCheckoutSubmit", NoRequest)
    /\ orderConfirmation' = NoConfirmation
    /\ UNCHANGED <<persisted, pricing, checkoutSummary, buyNowTimers,
                   catalogVars>>

\* The checkout form of the shown modal is submitted: the payment is
\* simulated by a timer of two seconds.
HandleCheckoutSubmit ==
    /\ checkoutSummary.active
    /\ paymentTimers < MaxPayments
    /\ paymentTimers' = paymentTimers + 1
    /\ event' = Event("handleCheckoutSubmit", NoRequest)
    /\ orderConfirmation' = NoConfirmation
    /\ UNCHANGED <<cartVars, pricing, display, checkoutSummary, buyNowTimers,
                   catalogVars>>

PaymentCompletesConfirmsSummary ==
    /\ paymentTimers > 0
    /\ paymentTimers' = paymentTimers - 1
    /\ LET r == clear(items, store, TRUE)
       IN  /\ items' = r.items
           /\ store' = r.store
           /\ last' = Call("clear", 0, 0, FALSE, r)
           /\ persisted' = (persisted /\ r.write # "failed")
           /\ display' = Rendered(r.items)
    /\ checkoutSummary' = closeCheckoutModal(checkoutSummary)
    /\ orderConfirmation' = [shown |-> TRUE, itemCount |-> getItemCount(items),
                             total |-> checkoutSummary.checkoutTotal]
    /\ event' = Event("paymentCompletes", NoRequest)
    /\ UNCHANGED <<pricing, buyNowTimers, catalogVars>>

\* A payment timer fires: the order is confirmed in an alert, the cart is
\* cleared, the mini cart rendered again
\* and the modal closed.
PaymentCompletes ==
    /\ paymentTimers > 0
    /\ paymentTimers' = paymentTimers - 1
    /\ LET r == clear(items, store, TRUE)
       IN  /\ items' = r.items
           /\ store' = r.store
           /\ last' = Call("clear", 0, 0, FALSE, r)
           /\ persisted' = (persisted /\ r.write # "failed")
           /\ display' = Rendered(r.items)
    /\ checkoutSummary' = closeCheckoutModal(checkoutSummary)
    /\ orderConfirmation' = orderSummary(items)
    /\ event' = Event("paymentCompletes", NoRequest)
    /\ UNCHANGED <<pricing, buyNowTimers, catalogVars>>

BuyNowCheckoutAlwaysOpens ==
    /\ buyNowTimers > 0
    /\ buyNowTimers' = buyNowTimers - 1
    /\ checkoutSummary' = Opened(items)
    /\ event' = Event("buyNowCheckout", NoRequest)
    /\ orderConfirmation' = NoConfirmation
    /\ UNCHANGED <<cartVars, pricing, display, paymentTimers, catalogVars>>

\* The timer of handleBuyNow fires and calls handleCheckout.
BuyNowCheckout ==
    /\ buyNowTimers > 0
    /\ buyNowTimers' = buyNowTimers - 1
    /\ checkoutSummary' = IF ~isEmpty(items) THEN Opened(items)
                          ELSE checkoutSummary
    /\ event' = Event("buyNowCheckout", NoRequest)
    /\ orderConfirmation' = NoConfirmation
    /\ UNCHANGED <<cartVars, pricing, display, paymentTimers, catalogVars>>

NextTotals ==
    \/ HandleCheckout
    \/ CloseCheckoutModal

SpecTotals == InitTotals /\ [][NextTotals]_vars

(***************************************************************************)
(* ProductUI's cart handlers: every handler that changes the cart          *)
(* re-renders it with updateCartDisplay before it returns.  The product    *)
(* the detail view shows (selectedProduct) is any catalog product.  The    *)
(* store accepts every write here; failing writes are the subject of Spec. *)
(***************************************************************************)
InitUI ==
    /\ store \in InitialStores
    /\ items = constructor(store).items
    /\ last = [op |-> "constructor", productId |-> 0, quantity |-> 0,
               found |-> FALSE, write |-> "none", threw |-> constructor(store).threw]
    /\ persisted = TRUE
    /\ pricing = NoPricing
    /\ display = updateCartDisplay(items)
    /\ checkoutSummary = NoCheckoutSummary
    /\ paymentTimers = 0
    /\ buyNowTimers = 0
    /\ orderConfirmation = NoConfirmation
    /\ NoLoader

\* The page is loaded again: a new ProductUI on the same store; the timers
\* of the page before are gone.
PageLoad ==
    LET r == constructor(store)
    IN  /\ items' = r.items
        /\ last' = [op |-> "constructor", productId |-> 0, quantity |-> 0,
                    found |-> FALSE, write |-> "none", threw |-> r.threw]
        /\ persisted' = TRUE
        /\ display' = Rendered(r.items)
        /\ checkoutSummary' = NoCheckoutSummary
        /\ paymentTimers' = 0
        /\ buyNowTimers' = 0
        /\ orderConfirmation' = NoConfirmation
        /\ event' = Event("pageLoad", NoRequest)
        /\ UNCHANGED <<store, pricing, catalogVars>>

HandleAddToCart ==
    \E selectedProduct \in Products :
        LET r == addItem(items, store, selectedProduct, 1, TRUE)
        IN  /\ WithinBounds(r.items)
            /\ items' = r.items
            /\ store' = r.store
            /\ last' = Call("addItem", selectedProduct.id, 1,
                            HasLine(items, selectedProduct.id), r)
            /\ persisted' = (persisted /\ r.write # "failed")
            /\ display' = Rendered(r.items)
            /\ event' = Event("handleAddToCart", NoRequest)
            /\ orderConfirmation' = NoConfirmation
            /\ UNCHANGED <<pricing, checkoutSummary, paymentTimers, buyNowTimers, catalogVars>>

\* The Buy Now button of the product modal: the product is added and
\* handleCheckout is scheduled one second later.
HandleBuyNow ==
    \E selectedProduct \in Products :
        LET r == addItem(items, store, selectedProduct, 1, TRUE)
        IN  /\ WithinBounds(r.items)
            /\ buyNowTimers < MaxBuyNow
            /\ items' = r.items
            /\ store' = r.store
            /\ last' = Call("addItem", selectedProduct.id, 1,
                            HasLine(items, selectedProduct.id), r)
            /\ persisted' = (persisted /\ r.write # "failed")
            /\ display' = Rendered(r.items)
            /\ buyNowTimers' = buyNowTimers + 1
            /\ event' = Event("handleBuyNow", NoRequest)
            /\ orderConfirmation' = NoConfirmation
            /\ UNCHANGED <<pricing, checkoutSummary, paymentTimers, catalogVars>>

\* The buttons of a rendered mini-cart line.
RenderedIds == {display.lines[i] : i \in 1 .. Len(display.lines)}

QtyDecrease ==
    \E id \in RenderedIds :
        /\ HasLine(items, id)
        /\ LET quantity == items[Find(items, id)].quantity - 1
               r == updateQuantity(items, store, id, quantity, TRUE)
           IN  /\ items' = r.items
               /\ store' = r.store
               /\ last' = Call("updateQuantity", id, quantity, TRUE, r)
               /\ persisted' = (persisted /\ r.write # "failed")
               /\ display' = Rendered(r.items)
               /\ event' = Event("qtyDecrease", NoRequest)
               /\ orderConfirmation' = NoConfirmation
               /\ UNCHANGED <<pricing, checkoutSummary, paymentTimers, buyNowTimers, catalogVars>>

QtyIncrease ==
    \E id \in RenderedIds :
        /\ HasLine(items, id)
        /\ LET quantity == items[Find(items, id)].quantity + 1
               r == updateQuantity(items, store, id, quantity, TRUE)
           IN  /\ WithinBounds(r.items)
               /\ items' = r.items
               /\ store' = r.store
               /\ last' = Call("updateQuantity", id, quantity, TRUE, r)
               /\ persisted' = (persisted /\ r.write # "failed")
               /\ display' = Rendered(r.items)
               /\ event' = Event("qtyIncrease", NoRequest)
               /\ orderConfirmation' = NoConfirmation
               /\ UNCHANGED <<pricing, checkoutSummary, paymentTimers, buyNowTimers, catalogVars>>

RemoveClick ==
    \E id \in RenderedIds :
        LET r == removeItem(items, store, id, TRUE)
        IN  /\ items' = r.items
            /\ store' = r.store
            /\ last' = Call("removeItem", id, 0, HasLine(items, id), r)
            /\ persisted' = (persisted /\ r.write # "failed")
            /\ display' = Rendered(r.items)
            /\ event' = Event("removeClick", NoRequest)
            /\ orderConfirmation' = NoConfirmation
            /\ UNCHANGED <<pricing, checkoutSummary, paymentTimers, buyNowTimers, catalogVars>>

\* The clear button, with the confirm dialog answered yes.
HandleClearCart ==
    LET r == clear(items, store, TRUE)
    IN  /\ items' = r.items
        /\ store' = r.store
        /\ last' = Call("clear", 0, 0, FALSE, r)
        /\ persisted' = (persisted /\ r.write # "failed")
        /\ display' = Rendered(r.items)
        /\ event' = Event("handleClearCart", NoRequest)
        /\ orderConfirmation' = NoConfirmation
        /\ UNCHANGED <<pricing, checkoutSummary, paymentTimers, buyNowTimers, catalogVars>>

NextUI ==
    \/ PageLoad
    \/ HandleAddToCart
    \/ QtyDecrease
    \/ QtyIncrease
    \/ RemoveClick
    \/ HandleClearCart
    \/ HandleCheckout
    \/ CloseCheckoutModal
    \/ HandleCheckoutSubmit
    \/ PaymentCompletes
    \/ HandleBuyNow
    \/ BuyNowCheckout

SpecUI == InitUI /\ [][NextUI]_vars

(***************************************************************************)
(* ProductUI's catalog loader: the handlers of the search box, the         *)
(* category select and the load-more button, and the responses to the      *)
(* requests they send, which arrive in any order.                          *)
(***************************************************************************)
SearchTexts == {"", " phone "}

CategoryValues == {"", "beauty", "groceries"}

\* The page after ProductUI's constructor ran: its loadProducts() call
\* awaits the first page of the plain list.
InitCatalog ==
    /\ store = null
    /\ items = constructor(store).items
    /\ last = [op |-> "constructor", productId |-> 0, quantity |-> 0,
               found |-> FALSE, write |-> "none", threw |-> FALSE]
    /\ persisted = TRUE
    /\ pricing = NoPricing
    /\ display = updateCartDisplay(items)
    /\ checkoutSummary = NoCheckoutSummary
    /\ paymentTimers = 0
    /\ buyNowTimers = 0
    /\ orderConfirmation = NoConfirmation
    /\ currentSearch = ""
    /\ currentCategory = ""
    /\ currentSkip = 0
    /\ searchInput = ""
    /\ categoryFilter = ""
    /\ requests = SetToBag({loadProducts("", "", 0, FALSE)})
    /\ productsGrid = << >>
    /\ loadMoreBtn \in BOOLEAN
    /\ loading = TRUE
    /\ errorDiv = FALSE
    /\ event = Event("constructor", loadProducts("", "", 0, FALSE))

SentCancelsEarlier(rq) ==
    /\ requests' = SetToBag({rq})
    /\ loading' = TRUE
    /\ errorDiv' = FALSE

\* The synchronous part of loadProducts: spinner on, error box off, request
\* sent.
Sent(rq) ==
    /\ requests' = requests (+) SetToBag({rq})
    /\ loading' = TRUE
    /\ errorDiv' = FALSE

\* The user edits the search box.
TypeSearch ==
    \E text \in SearchTexts :
        /\ text # searchInput
        /\ searchInput' = text
        /\ event' = Event("input", NoRequest)
        /\ UNCHANGED <<cartVars, pricing, display, checkoutSummary, paymentTimers,
                   buyNowTimers, orderConfirmation, currentSearch,
                       currentCategory, currentSkip, categoryFilter, requests,
                       productsGrid, loadMoreBtn, loading, errorDiv>>

HandleSearchKeepsCategory ==
    /\ BagCardinality(requests) < Cardinality(ConcurrentLoads)
    /\ currentSearch' = trim(searchInput)
    /\ currentSkip' = 0
    /\ Sent(loadProducts(trim(searchInput), currentCategory, 0, FALSE))
    /\ event' = Event("handleSearch",
                       loadProducts(trim(searchInput), currentCategory, 0, FALSE))
    /\ UNCHANGED <<cartVars, pricing, display, checkoutSummary, paymentTimers,
                   buyNowTimers, orderConfirmation, searchInput,
                   currentCategory, categoryFilter, productsGrid, loadMoreBtn>>

HandleSearchKeepsOffset ==
    /\ BagCardinality(requests) < Cardinality(ConcurrentLoads)
    /\ currentSearch' = trim(searchInput)
    /\ currentCategory' = ""
    /\ categoryFilter' = ""
    /\ Sent(loadProducts(trim(searchInput), "", currentSkip, FALSE))
    /\ event' = Event("handleSearch",
                       loadProducts(trim(searchInput), "", currentSkip, FALSE))
    /\ UNCHANGED <<cartVars, pricing, display, checkoutSummary, paymentTimers,
                   buyNowTimers, orderConfirmation, searchInput,
                   currentSkip, productsGrid, loadMoreBtn>>

\* The search button or Enter in the search box.
HandleSearch ==
    /\ BagCardinality(requests) < Cardinality(ConcurrentLoads)
    /\ currentSearch' = trim(searchInput)
    /\ currentSkip' = 0
    /\ currentCategory' = ""
    /\ categoryFilter' = ""
    /\ Sent(loadProducts(trim(searchInput), "", 0, FALSE))
    /\ event' = Event("handleSearch", loadProducts(trim(searchInput), "", 0, FALSE))
    /\ UNCHANGED <<cartVars, pricing, display, checkoutSummary, paymentTimers,
                   buyNowTimers, orderConfirmation, searchInput,
                   productsGrid, loadMoreBtn>>

\* The user picks another option of the category select.
HandleCategoryFilter ==
    \E selected \in CategoryValues :
        /\ selected # categoryFilter
        /\ BagCardinality(requests) < Cardinality(ConcurrentLoads)
        /\ categoryFilter' = selected
        /\ currentCategory' = selected
        /\ currentSkip' = 0
        /\ currentSearch' = ""
        /\ searchInput' = ""
        /\ Sent(loadProducts("", selected, 0, FALSE))
        /\ event' = Event("handleCategoryFilter", loadProducts("", selected, 0, FALSE))
        /\ UNCHANGED <<cartVars, pricing, display, checkoutSummary, paymentTimers,
                   buyNowTimers, orderConfirmation,
                       productsGrid, loadMoreBtn>>

\* A click on the displayed load-more button.
HandleLoadMore ==
    /\ loadMoreBtn
    /\ BagCardinality(requests) < Cardinality(ConcurrentLoads)
    /\ currentSkip + limit <= limit * MaxPages
    /\ currentSkip' = currentSkip + limit
    /\ Sent(loadProducts(currentSearch, currentCategory, currentSkip + limit, TRUE))
    /\ event' = Event("handleLoadMore",
                       loadProducts(currentSearch, currentCategory,
                                    currentSkip + limit, TRUE))
    /\ UNCHANGED <<cartVars, pricing, display, checkoutSummary, paymentTimers,
                   buyNowTimers, orderConfirmation, currentSearch,
                   currentCategory, searchInput, categoryFilter, productsGrid,
                   loadMoreBtn>>

ResponseArrivesCountsLoads ==
    \E rq \in BagToSet(requests) :
        LET shown == displayProducts(productsGrid, ResponseProducts(rq), rq.append)
        IN  /\ Len(shown.grid) <= limit * MaxPages
            /\ productsGrid' = shown.grid
            /\ loadMoreBtn' = shown.loadMoreBtn
            /\ loading' = (requests (-) SetToBag({rq}) # EmptyBag)
            /\ requests' = requests (-) SetToBag({rq})
            /\ event' = Event("response", rq)
            /\ UNCHANGED <<cartVars, pricing, display, checkoutSummary, paymentTimers,
                   buyNowTimers, orderConfirmation,
                           currentSearch, currentCategory, currentSkip,
                           searchInput, categoryFilter, errorDiv>>

\* A fetch resolves: loadProducts continues after its await, renders the
\* products and hides the spinner.
ResponseArrives ==
    \E rq \in BagToSet(requests) :
        LET shown == displayProducts(productsGrid, ResponseProducts(rq), rq.append)
        IN  /\ Len(shown.grid) <= limit * MaxPages
            /\ productsGrid' = shown.grid
            /\ loadMoreBtn' = shown.loadMoreBtn
            /\ loading' = FALSE
            /\ requests' = requests (-) SetToBag({rq})
            /\ event' = Event("response", rq)
            /\ UNCHANGED <<cartVars, pricing, display, checkoutSummary, paymentTimers,
                   buyNowTimers, orderConfirmation,
                           currentSearch, currentCategory, currentSkip,
                           searchInput, categoryFilter, errorDiv>>

RequestFailsRollsBack ==
    \E rq \in BagToSet(requests) :
        /\ errorDiv' = TRUE
        /\ loading' = FALSE
        /\ requests' = requests (-) SetToBag({rq})
        /\ currentSkip' = IF rq.append /\ currentSkip >= limit
                          THEN currentSkip - limit ELSE currentSkip
        /\ event' = Event("failure", rq)
        /\ UNCHANGED <<cartVars, pricing, display, checkoutSummary, paymentTimers,
                   buyNowTimers, orderConfirmation,
                       currentSearch, currentCategory, searchInput,
                       categoryFilter, productsGrid, loadMoreBtn>>

RequestFailsRetries ==
    \E rq \in BagToSet(requests) :
        /\ errorDiv' = TRUE
        /\ loading' = TRUE
        /\ requests' = requests
        /\ event' = Event("failure", rq)
        /\ UNCHANGED <<cartVars, pricing, display, checkoutSummary, paymentTimers,
                   buyNowTimers, orderConfirmation,
                       currentSearch, currentCategory, currentSkip, searchInput,
                       categoryFilter, productsGrid, loadMoreBtn>>

\* A fetch rejects or answers with a non-success status: loadProducts shows
\* the error and hides the spinner.
RequestFails ==
    \E rq \in BagToSet(requests) :
        /\ errorDiv' = TRUE
        /\ loading' = FALSE
        /\ requests' = requests (-) SetToBag({rq})
        /\ event' = Event("failure", rq)
        /\ UNCHANGED <<cartVars, pricing, display, checkoutSummary, paymentTimers,
                   buyNowTimers, orderConfirmation,
                       currentSearch, currentCategory, currentSkip, searchInput,
                       categoryFilter, productsGrid, loadMoreBtn>>

NextCatalog ==
    \/ TypeSearch
    \/ HandleSearch
    \/ HandleCategoryFilter
    \/ HandleLoadMore
    \/ ResponseArrives
    \/ RequestFails

SpecCatalog == InitCatalog /\ [][NextCatalog]_vars

(***************************************************************************)
(* Properties of the cart.                                                 *)
(***************************************************************************)
Mutators == {"addItem", "removeItem", "updateQuantity", "clear"}

UniqueIds(its) ==
    \A i, j \in 1 .. Len(its) :
        i # j => its[i].product.id # its[j].product.id

LinesFor(its, productId) == {i \in 1 .. Len(its) : its[i].product.id = productId}

C2_AddItemInsertsOrIncrements ==
    \A product \in AnyProduct, a \in AnyQuantity, b \in AnyQuantity :
        LET i == Find(items, product.id)
            r == addItem(items, store, product, a, TRUE)
            r2 == addItem(r.items, r.store, product, b, TRUE)
            k == Find(r2.items, product.id)
        IN  /\ i = 0 =>
                /\ Len(r.items) = Len(items) + 1
                /\ \A j \in 1 .. Len(items) : r.items[j] = items[j]
                /\ r.items[Len(r.items)].product = product
                /\ r.items[Len(r.items)].quantity = a
                /\ Len(r2.items) = Len(items) + 1
                /\ Cardinality(LinesFor(r2.items, product.id)) = 1
                /\ r2.items[k].quantity = a + b
            /\ i # 0 =>
                /\ Len(r.items) = Len(items)
                /\ r.items[i].quantity = items[i].quantity + a
                /\ r.items[i].product = items[i].product
                /\ \A j \in 1 .. Len(items) : j # i => r.items[j] = items[j]

\* addItem(P, 1) has just raised an existing line of P from 1 to 2.
C2_Witness ==
    /\ last.op = "addItem"
    /\ last.found
    /\ last.quantity = 1
    /\ \E i \in 1 .. Len(items) :
        /\ items[i].product.id = last.productId
        /\ items[i].quantity = 2
    /\ Cardinality(LinesFor(items, last.productId)) = 1

\* C3: after any sequence of addItem, removeItem, updateQuantity and clear
\* with arbitrary integer quantities, every line has a quantity > 0.
C3_EveryQuantityPositive ==
    \A i \in 1 .. Len(items) : items[i].quantity > 0

C5_UpdatePositiveSetsExactly ==
    \A productId \in ProductIds, quantity \in AnyQuantity :
        quantity > 0 =>
            LET i == Find(items, productId)
                r == updateQuantity(items, store, productId, quantity, TRUE).items
            IN  /\ Len(r) = Len(items)
                /\ \A j \in 1 .. Len(items) :
                    /\ r[j].product = items[j].product
                    /\ r[j].quantity =
                           IF j = i THEN quantity ELSE items[j].quantity

\* updateQuantity(id, 1) has just set the second of two lines to 1, the
\* first one holding 2.
C5_Witness ==
    /\ last.op = "updateQuantity"
    /\ last.found
    /\ last.quantity = 1
    /\ Len(items) = 2
    /\ items[2].product.id = last.productId
    /\ items[2].quantity = 1
    /\ items[1].quantity = 2

\* C6: removeItem(id) deletes the line of id when there is one and leaves
\* the other lines, with their products, quantities and order, as they were;
\* when no line has the id the lines are unchanged.
C6_RemoveDeletesOnlyThatLine ==
    \A productId \in ProductIds :
        LET i == Find(items, productId)
            r == removeItem(items, store, productId, TRUE).items
        IN  IF i = 0
            THEN r = items
            ELSE r = SubSeq(items, 1, i - 1) \o SubSeq(items, i + 1, Len(items))

\* removeItem(id) has just removed a line and another line is left.
C6_Witness ==
    /\ last.op = "removeItem"
    /\ last.found
    /\ Len(items) = 1
    /\ items[1].product.id # last.productId

\* The slot holds a JSON array with one {productData, quantity} record per
\* line of the cart, in the cart's order, with the line's id and quantity.
SlotHoldsLines(st, its) ==
    /\ st.type = "string"
    /\ st.text.type = "array"
    /\ Len(st.text.elems) = Len(its)
    /\ \A i \in 1 .. Len(its) :
        /\ st.text.elems[i].type = "object"
        /\ Prop(st.text.elems[i], "productData").type = "object"
        /\ Prop(Prop(st.text.elems[i], "productData"), "id") = Num(its[i].product.id)
        /\ Prop(st.text.elems[i], "quantity") = Num(its[i].quantity)

IdsAndQuantities(its) ==
    [i \in 1 .. Len(its) |-> <<its[i].product.id, its[i].quantity>>]

\* C8: as long as no store write has failed since the cart was constructed,
\* a fresh Cart constructed on the same store has the same lines by
\* product id, quantity and order.
C8_RoundTrip ==
    persisted =>
        IdsAndQuantities(getItems(constructor(store).items)) =
            IdsAndQuantities(getItems(items))

\* A fresh Cart has just been constructed on a store written by a cart of
\* two lines, the first of product 2 with quantity 2.
C8_Witness ==
    /\ last.op = "constructor"
    /\ persisted
    /\ Len(items) = 2
    /\ items[1].product.id = 2
    /\ items[1].quantity = 2
    /\ items[2].product.id = 1
    /\ SlotHoldsLines(store, items)

\* C10: a failing store write never reaches the caller, leaves the slot as
\* it was, and the lines are the ones the same call leaves when the write
\* succeeds.
C10_WriteFailureKeepsMemory ==
    /\ last.threw = FALSE
    /\ \A product \in AnyProduct, quantity \in AnyQuantity :
        LET f == addItem(items, store, product, quantity, FALSE)
            t == addItem(items, store, product, quantity, TRUE)
        IN  f.items = t.items /\ f.store = store /\ ~f.threw /\ f.write = "failed"
    /\ \A productId \in ProductIds, quantity \in AnyQuantity :
        LET f == updateQuantity(items, store, productId, quantity, FALSE)
            t == updateQuantity(items, store, productId, quantity, TRUE)
        IN  f.items = t.items /\ f.store = store /\ ~f.threw
    /\ \A productId \in ProductIds :
        LET f == removeItem(items, store, productId, FALSE)
            t == removeItem(items, store, productId, TRUE)
        IN  f.items = t.items /\ f.store = store /\ ~f.threw /\ f.write = "failed"
    /\ LET f == clear(items, store, FALSE)
           t == clear(items, store, TRUE)
       IN  f.items = t.items /\ f.store = store /\ ~f.threw /\ f.write = "failed"

\* addItem has just put a first line in the cart while its write failed on a
\* store without the key: the cart has the line, the slot is still absent.
C10_Witness ==
    /\ last.op = "addItem"
    /\ last.write = "failed"
    /\ ~last.threw
    /\ Len(items) = 1
    /\ store = null

\* A stored value is well formed when it is a JSON array of records with an
\* object productData carrying the IProduct fields and a number quantity.
WellFormedLine(e) ==
    /\ e.type = "object"
    /\ Prop(e, "productData").type = "object"
    /\ Prop(Prop(e, "productData"), "id").type = "number"
    /\ Prop(Prop(e, "productData"), "category").type = "string"
    /\ Prop(Prop(e, "productData"), "price").type = "number"
    /\ Prop(Prop(e, "productData"), "discountPercentage").type = "number"
    /\ Prop(e, "quantity").type = "number"

WellFormedStore(st) ==
    /\ st.type = "string"
    /\ st.text.type = "array"
    /\ \A i \in 1 .. Len(st.text.elems) : WellFormedLine(st.text.elems[i])

\* C9: constructing a Cart never throws; a missing key, text that is not
\* JSON, JSON that is not an array, and an array with an element that is not
\* a well-formed {productData, quantity} record all yield an empty cart.
C9_MalformedStoreYieldsEmptyCart ==
    last.op = "constructor" =>
        /\ ~last.threw
        /\ ~WellFormedStore(store) => Len(items) = 0

(***************************************************************************)
(* Properties of the totals.                                               *)
(***************************************************************************)
\* C11: in every reachable cart state, getTotal() equals getSubtotal() +
\* getTotalTax() exactly: the sum of the two accessors' results as the
\* number format adds them, with no further term and no further rounding.
C11_TotalIsSubtotalPlusTax ==
    getTotal(items) = FAdd(getSubtotal(items), getTotalTax(items))

\* A two-line cart with tax due whose totals the checkout modal shows.
C11_Witness ==
    /\ checkoutSummary.active
    /\ Len(items) = 2
    /\ getTotalTax(items) # Zero
    /\ getTotal(items) # getSubtotal(items)

\* The tax rate of a category as the tax rules state it: 3 % for groceries
\* in any letter case, 4.75 % for every other category.
GroceriesSpellings == {"groceries", "Groceries", "GROCERIES"}

LineTaxRate(category) ==
    IF category \in GroceriesSpellings THEN Dec(3, -2) ELSE Dec(475, -4)

RECURSIVE SumOfLineTaxes(_, _)
SumOfLineTaxes(its, n) ==
    IF n = 0 THEN Zero
    ELSE FAdd(SumOfLineTaxes(its, n - 1),
              FMul(FMul(getPriceWithDiscount(its[n].product),
                        LineTaxRate(its[n].product.category)),
                   FromInt(its[n].quantity)))

RECURSIVE SumOfLinePrices(_, _)
SumOfLinePrices(its, n) ==
    IF n = 0 THEN Zero
    ELSE FAdd(SumOfLinePrices(its, n - 1),
              FMul(getPriceWithDiscount(its[n].product), FromInt(its[n].quantity)))

\* C12: getTotalTax() is the sum over the lines of tax rate of the line's
\* category x discounted price of the line's product x quantity, so tax is
\* computed on the price after discount and never on the original price, and
\* getSubtotal() is the sum over the lines of discounted price x quantity.
C12_TaxIsOnDiscountedPrice ==
    /\ getTotalTax(items) = SumOfLineTaxes(items, Len(items))
    /\ getSubtotal(items) = SumOfLinePrices(items, Len(items))

\* The modal shows a two-line cart with a discounted line whose tax on the
\* list price would be another amount.
C12_Witness ==
    /\ checkoutSummary.active
    /\ Len(items) = 2
    /\ \E i \in 1 .. Len(items) :
          /\ items[i].product.discountPercentage # Zero
          /\ FMul(items[i].product.price, LineTaxRate(items[i].product.category))
                # FMul(getPriceWithDiscount(items[i].product),
                       LineTaxRate(items[i].product.category))

RECURSIVE SumOfListPrices(_, _)
SumOfListPrices(its, n) ==
    IF n = 0 THEN Zero
    ELSE FAdd(SumOfListPrices(its, n - 1),
              FMul(its[n].product.price, FromInt(its[n].quantity)))

\* C13 as stated: in every reachable cart state, getTotalSavings() equals the
\* sum over the lines of product.price x quantity minus getSubtotal().
C13_SavingsEqualListMinusSubtotal ==
    getTotalSavings(items)
        = FSub(SumOfListPrices(items, Len(items)), getSubtotal(items))

\* C13 amended: in every reachable cart state, getTotalSavings() and the sum
\* over the lines of product.price x quantity minus getSubtotal() agree within
\* floating-point tolerance: they differ by at most 8 units in the last place
\* of the undiscounted sum for each line of the cart.
C13_SavingsNearListMinusSubtotal ==
    FWithin(getTotalSavings(items),
            FSub(SumOfListPrices(items, Len(items)), getSubtotal(items)),
            Ulps(8 * Len(items), SumOfListPrices(items, Len(items))))

\* The modal shows a two-line cart with savings for which the two formulas
\* round to different numbers.
C13_Witness ==
    /\ checkoutSummary.active
    /\ Len(items) = 2
    /\ getTotalSavings(items) # Zero
    /\ getTotalSavings(items)
          # FSub(SumOfListPrices(items, Len(items)), getSubtotal(items))

(***************************************************************************)
(* Properties of the pricing functions.                                    *)
(***************************************************************************)
\* C14 as stated: for every price >= 0 and every discountPercentage in
\* 0..100, calculateDiscount(price, discountPercentage) plus the product's
\* getPriceWithDiscount() equals price, and getPriceWithDiscount() lies
\* between 0 and price.
C14_DiscountPlusDiscountedIsPrice ==
    pricing.phase = "done" =>
        /\ FAdd(pricing.discount, pricing.priceWithDiscount) = pricing.price
        /\ FLe(Zero, pricing.priceWithDiscount)
        /\ FLe(pricing.priceWithDiscount, pricing.price)

\* C14 amended: for every price >= 0 and every discountPercentage in 0..100,
\* calculateDiscount(price, discountPercentage) plus the product's
\* getPriceWithDiscount() equals price within floating-point tolerance (one
\* unit in the last place of price), and getPriceWithDiscount() lies between
\* 0 and price within the same tolerance.
C14_DiscountPlusDiscountedNearPrice ==
    pricing.phase = "done" =>
        /\ FWithin(FAdd(pricing.discount, pricing.priceWithDiscount),
                   pricing.price, Ulps(1, pricing.price))
        /\ FLe(FSub(Zero, Ulps(1, pricing.price)), pricing.priceWithDiscount)
        /\ FLe(pricing.priceWithDiscount,
               FAdd(pricing.price, Ulps(1, pricing.price)))

\* The functions were applied to a discounted price for which the two parts
\* do not add up to the price again.
C14_Witness ==
    /\ pricing.phase = "done"
    /\ pricing.discount # Zero
    /\ pricing.priceWithDiscount # pricing.price
    /\ FAdd(pricing.discount, pricing.priceWithDiscount) # pricing.price

\* C15: calculateTax(price, category) returns 3 % of price when category
\* equals "groceries" under case-insensitive comparison ("Groceries",
\* "GROCERIES") and 4.75 % of price for every other category string, so
\* calculateTax(100, "groceries") is 3 and calculateTax(100, "Electronics")
\* is 4.75.
C15_TaxTiers ==
    pricing.phase = "done" =>
        /\ pricing.category \in {"groceries", "Groceries", "GROCERIES"}
              => pricing.tax = FMul(pricing.price, Dec(3, -2))
        /\ pricing.category \notin {"groceries", "Groceries", "GROCERIES"}
              => pricing.tax = FMul(pricing.price, Dec(475, -4))
        /\ pricing.price = Dec(100, 0) /\ pricing.category = "groceries"
              => pricing.tax = FromInt(3)
        /\ pricing.price = Dec(100, 0) /\ pricing.category = "Electronics"
              => pricing.tax = Dec(475, -2)

\* calculateTax was applied to 100 and an upper-case spelling of groceries.
C15_Witness ==
    /\ pricing.phase = "done"
    /\ pricing.category = "GROCERIES"
    /\ pricing.price = Dec(100, 0)
    /\ pricing.tax = FromInt(3)

(***************************************************************************)
(* Properties of the page.                                                 *)
(***************************************************************************)
\* C16: whenever the cart has no lines (freshly created on an empty store,
\* or after clear()), isEmpty() is true, getItemCount(), getSubtotal(),
\* getTotalTax(), getTotal() and getTotalSavings() are all 0, and after the
\* page re-rendered the cart the checkout button is disabled; after a
\* re-render the checkout button is enabled exactly when isEmpty() is false.
C16_EmptyCartDisablesCheckout ==
    /\ Len(items) = 0 =>
          /\ isEmpty(items)
          /\ getItemCount(items) = 0
          /\ getSubtotal(items) = Zero
          /\ getTotalTax(items) = Zero
          /\ getTotal(items) = Zero
          /\ getTotalSavings(items) = Zero
          /\ display.checkoutBtnDisabled
    /\ ~display.checkoutBtnDisabled <=> ~isEmpty(items)

\* The page re-rendered after clear() emptied a cart whose modal was open.
C16_Witness ==
    /\ last.op = "clear"
    /\ Len(items) = 0
    /\ display.checkoutBtnDisabled
    /\ display.cartCount = 0
    /\ checkoutSummary.active
    /\ checkoutSummary.checkoutTotal # 0

(***************************************************************************)
(* Properties of the catalog loader.                                       *)
(***************************************************************************)
\* C17: in every reachable catalog query state, the search term and the
\* category filter are never both non-empty: every action that sets one
\* clears the other.
C17_SearchAndCategoryExclusive ==
    ~(currentSearch # "" /\ currentCategory # "")

\* A search is active while the grid still shows the cards of the category
\* filter it replaced.
C17_Witness ==
    /\ event.op = "handleSearch"
    /\ currentSearch # ""
    /\ currentCategory = ""
    /\ Len(productsGrid) > 0
    /\ productsGrid[1].category # ""

\* The requests the handlers are stated to send.
SearchRequest(term, append) ==
    [path |-> "products/search", q |-> term, category |-> "", paged |-> FALSE,
     limit |-> 0, skip |-> 0, append |-> append]

CategoryRequest(category, skip, append) ==
    [path |-> "products/category", q |-> "", category |-> category,
     paged |-> TRUE, limit |-> limit, skip |-> skip, append |-> append]

ListRequest(skip, append) ==
    [path |-> "products", q |-> "", category |-> "", paged |-> TRUE,
     limit |-> limit, skip |-> skip, append |-> append]

\* The grid after a response rendered in replace mode.
ReplacedBy(rq) ==
    IF Len(ResponseProducts(rq)) = 0 THEN <<NoProductsMessage>>
    ELSE ResponseProducts(rq)

\* C18 as stated: search(term), from any loader state and any prior query
\* state, sets the search term to term, clears the category filter, resets
\* the page offset to 0 and issues a search request whose result is rendered
\* in replace mode.
C18_SearchIssuesSearchRequest ==
    /\ event.op = "handleSearch" =>
          /\ currentSearch = trim(searchInput)
          /\ currentCategory = ""
          /\ currentSkip = 0
          /\ event.request = SearchRequest(trim(searchInput), FALSE)
          /\ BagIn(event.request, requests)
    /\ event.op = "response" /\ event.request.path = "products/search"
          /\ ~event.request.append
          => productsGrid = ReplacedBy(event.request)

\* C18 amended: search(term), from any loader state and any prior query
\* state, sets the search term to term, clears the category filter, resets
\* the page offset to 0 and issues a request whose result is rendered in
\* replace mode: a search request for term when term is not empty, the plain
\* list request (limit = page size, skip = 0) when term is empty.
C18_SearchIssuesSearchOrListRequest ==
    /\ event.op = "handleSearch" =>
          /\ currentSearch = trim(searchInput)
          /\ currentCategory = ""
          /\ currentSkip = 0
          /\ event.request = IF trim(searchInput) # ""
                             THEN SearchRequest(trim(searchInput), FALSE)
                             ELSE ListRequest(0, FALSE)
          /\ BagIn(event.request, requests)
    /\ event.op = "response" /\ ~event.request.append
          /\ event.request.path \in {"products/search", "products"}
          => productsGrid = ReplacedBy(event.request)

\* A search was started while the grid showed two pages of a category and an
\* earlier request was still awaited.
C18_Witness ==
    /\ event.op = "handleSearch"
    /\ currentSearch = "phone"
    /\ searchInput = " phone "
    /\ Len(productsGrid) > limit
    /\ productsGrid[1].category # ""
    /\ BagCardinality(requests) = 2

\* C19 as stated: filter(category), from any loader state and any prior query
\* state, sets the category filter to category, clears the search term,
\* resets the page offset to 0 and issues a category-scoped list request
\* (limit = page size, skip = 0) whose result is rendered in replace mode.
C19_FilterIssuesCategoryRequest ==
    /\ event.op = "handleCategoryFilter" =>
          /\ currentCategory = categoryFilter
          /\ currentSearch = ""
          /\ currentSkip = 0
          /\ event.request = CategoryRequest(categoryFilter, 0, FALSE)
          /\ BagIn(event.request, requests)
    /\ event.op = "response" /\ event.request.path = "products/category"
          /\ ~event.request.append
          => productsGrid = ReplacedBy(event.request)

\* C19 amended: filter(category), from any loader state and any prior query
\* state, sets the category filter to category, clears the search term,
\* resets the page offset to 0 and issues a list request (limit = page size,
\* skip = 0) whose result is rendered in replace mode: scoped to category
\* when category is not empty, the plain list when category is empty.
C19_FilterIssuesCategoryOrListRequest ==
    /\ event.op = "handleCategoryFilter" =>
          /\ currentCategory = categoryFilter
          /\ currentSearch = ""
          /\ currentSkip = 0
          /\ event.request = IF categoryFilter # ""
                             THEN CategoryRequest(categoryFilter, 0, FALSE)
                             ELSE ListRequest(0, FALSE)
          /\ BagIn(event.request, requests)
    /\ event.op = "response" /\ ~event.request.append
          /\ event.request.path \in {"products/category", "products"}
          => /\ productsGrid = ReplacedBy(event.request)
             /\ event.request.limit = limit
             /\ event.request.skip = 0

\* A category was picked while a search was active and its request awaited.
C19_Witness ==
    /\ event.op = "handleCategoryFilter"
    /\ currentCategory = "beauty"
    /\ BagIn(SearchRequest("phone", FALSE), requests)
    /\ BagIn(CategoryRequest("beauty", 0, FALSE), requests)

\* The request of the currently active query for a page offset.
ActiveQueryRequest(search, category, skip, append) ==
    IF search # "" THEN SearchRequest(search, append)
    ELSE IF category # "" THEN CategoryRequest(category, skip, append)
    ELSE ListRequest(skip, append)

\* C20: loadMore() increments the page offset by exactly the page size,
\* leaves the search term and the category filter unchanged, and issues a
\* request for the same currently active query (search, category or plain
\* list) whose result is rendered in append mode.
C20_LoadMoreAdvancesOnePage ==
    [][event'.op = "handleLoadMore" =>
          /\ currentSkip' = currentSkip + limit
          /\ currentSearch' = currentSearch
          /\ currentCategory' = currentCategory
          /\ event'.request = ActiveQueryRequest(currentSearch, currentCategory,
                                                 currentSkip + limit, TRUE)
          /\ requests' = requests (+) SetToBag({event'.request})]_vars

\* The second load-more of a category filter awaits its page.
C20_Witness ==
    /\ event.op = "handleLoadMore"
    /\ currentCategory = "beauty"
    /\ currentSkip = 2 * limit
    /\ BagIn(CategoryRequest("beauty", 2 * limit, TRUE), requests)

\* The product cards of a grid, without the "No products found." paragraph.
Cards(grid) == SelectSeq(grid, LAMBDA entry : entry.type = "card")

\* C21: on a successful response, in replace mode the displayed set becomes
\* exactly the response's results; in append mode it becomes the previously
\* displayed entries followed by the response's results, for every response
\* including an empty one.
C21_AppendKeepsDisplayedEntries ==
    [][event'.op = "response" =>
          Cards(productsGrid') =
              IF event'.request.append
              THEN Cards(productsGrid) \o ResponseProducts(event'.request)
              ELSE ResponseProducts(event'.request)]_vars

\* C22: after each rendered response, replace or append, the load-more
\* control is shown exactly if that response held at least limit (12)
\* products; a response with fewer, zero included, hides it.
C22_LoadMoreShownForFullPage ==
    event.op = "response" =>
        loadMoreBtn = (Len(ResponseProducts(event.request)) >= limit)

\* The second page of a category with 14 products was appended: 2 products,
\* the button is hidden.
C22_Witness ==
    /\ event.op = "response"
    /\ event.request.append
    /\ Len(ResponseProducts(event.request)) = 2
    /\ Len(productsGrid) = limit + 2
    /\ ~loadMoreBtn

\* C23: when a catalog fetch fails, the loader shows the error, leaves the
\* displayed products and the query state as they were, and sends no request
\* of its own: the failed request is gone and no other one has appeared.
C23_FailureShowsErrorKeepsGrid ==
    [][event'.op = "failure" =>
          /\ errorDiv'
          /\ productsGrid' = productsGrid
          /\ loadMoreBtn' = loadMoreBtn
          /\ <<currentSearch', currentCategory', currentSkip'>> =
                 <<currentSearch, currentCategory, currentSkip>>
          /\ BagIn(event'.request, requests)
          /\ requests' = requests (-) SetToBag({event'.request})]_vars

\* A load-more request failed while a page of products was displayed.
C23_Witness ==
    /\ event.op = "failure"
    /\ event.request.append
    /\ errorDiv
    /\ Len(productsGrid) = limit
    /\ requests = EmptyBag

\* C27: catalog responses are neither serialized nor cancelled: a handler
\* adds its request to the ones already awaited, and every response is
\* rendered when it arrives, whatever the query state is by then.
C27_ResponsesNeitherSerializedNorCancelled ==
    [][/\ event'.op \in {"handleSearch", "handleCategoryFilter", "handleLoadMore"}
          => requests' = requests (+) SetToBag({event'.request})
       /\ event'.op = "response"
          => /\ BagIn(event'.request, requests)
             /\ productsGrid' = displayProducts(productsGrid,
                                                ResponseProducts(event'.request),
                                                event'.request.append).grid]_vars

\* The response to the constructor's plain-list request arrived after the
\* response to a later search and replaced its render: the grid shows the
\* plain list while the search term is "phone".
C27_Witness ==
    /\ event.op = "response"
    /\ event.request = ListRequest(0, FALSE)
    /\ currentSearch = "phone"
    /\ requests = EmptyBag
    /\ ~errorDiv
    /\ productsGrid = ResponseProducts(ListRequest(0, FALSE))
    /\ productsGrid # ResponseProducts(SearchRequest("phone", FALSE))

\* The append requests awaited.
AppendRequests ==
    {rq \in BagToSet(requests) : rq.append}

\* C28: loadMore is taken only from the Loaded state, never while a fetch is
\* in flight or while the error is shown, so at most one append request is
\* outstanding.
C28_LoadMoreOnlyWhenLoaded ==
    [][event'.op = "handleLoadMore" =>
          /\ requests = EmptyBag
          /\ ~errorDiv
          /\ \A rq \in AppendRequests' : CopiesIn(rq, requests') = 1
          /\ Cardinality(AppendRequests') <= 1]_vars

\* C29: in every reachable catalog query state the page offset is a
\* non-negative multiple of the page size (12), and it is 0 right after every
\* search or filter action.
C29_OffsetIsMultipleOfPageSize ==
    /\ currentSkip >= 0
    /\ currentSkip % limit = 0
    /\ event.op \in {"handleSearch", "handleCategoryFilter"} => currentSkip = 0

\* A search was started from the third page of a listing.
C29_Witness ==
    /\ event.op = "handleSearch"
    /\ currentSkip = 0
    /\ \E rq \in BagToSet(requests) : rq.append /\ rq.skip = 2 * limit

\* C30: in search mode the request does not depend on the page offset or the
\* page size: loadMore after a search sends the search request again, and its
\* response appends the same products a second time.
C30_LoadMoreRepeatsSearch ==
    /\ event.op = "handleLoadMore" /\ currentSearch # ""
          => event.request = SearchRequest(currentSearch, TRUE)
    /\ \A rq \in BagToSet(requests) :
          rq.path = "products/search"
              => /\ rq.skip = 0 /\ rq.limit = 0 /\ ~rq.paged
                 /\ ResponseProducts(rq) =
                        ResponseProducts(SearchRequest(rq.q, FALSE))
    /\ event.op = "response" /\ event.request.path = "products/search"
          /\ event.request.append /\ Len(ResponseProducts(event.request)) > 0
          => SubSeq(productsGrid,
                    Len(productsGrid) - Len(ResponseProducts(event.request)) + 1,
                    Len(productsGrid))
                 = ResponseProducts(SearchRequest(event.request.q, FALSE))

\* The grid holds the results of the search twice.
C30_Witness ==
    /\ event.op = "response"
    /\ event.request = SearchRequest("phone", TRUE)
    /\ currentSearch = "phone"
    /\ currentSkip = limit
    /\ productsGrid = ResponseProducts(SearchRequest("phone", FALSE))
                          \o ResponseProducts(SearchRequest("phone", FALSE))

\* The ids of a sequence without one of them, in order.
Without(ids, productId) == SelectSeq(ids, LAMBDA id : id # productId)

\* C25: getItems() returns the lines in order of first insertion: addItem of
\* a product already in the cart and updateQuantity with a positive quantity
\* move no line, addItem of a new product puts its line last, removeItem
\* keeps the order of the remaining lines, and a product removed and added
\* again comes last.
C25_LinesKeepInsertionOrder ==
    /\ \A product \in OrderProducts, quantity \in 1 .. MaxQuantity :
          LineIds(getItems(addItem(items, store, product, quantity, TRUE).items))
              = IF HasLine(items, product.id) THEN LineIds(getItems(items))
                ELSE Append(LineIds(getItems(items)), product.id)
    /\ \A productId \in OrderIds, quantity \in 1 .. MaxQuantity :
          LineIds(getItems(updateQuantity(items, store, productId, quantity,
                                          TRUE).items))
              = LineIds(getItems(items))
    /\ \A product \in OrderProducts :
          LET removed == removeItem(items, store, product.id, TRUE)
              readded == addItem(removed.items, removed.store, product, 1, TRUE)
          IN  /\ LineIds(getItems(removed.items))
                     = Without(LineIds(getItems(items)), product.id)
              /\ LineIds(getItems(readded.items))
                     = Append(Without(LineIds(getItems(items)), product.id),
                              product.id)

\* removeItem has just taken a line out of a cart of three lines and left
\* the lines of products 3 and 2, in the order they were inserted.
C25_Witness ==
    /\ last.op = "removeItem"
    /\ last.productId = 1
    /\ last.found
    /\ LineIds(getItems(items)) = <<3, 2>>

\* C24: submitting the checkout form does not clear the cart; it is cleared
\* only when the payment timer fires.  No step of checkout before that
\* (opening or closing the modal, submitting) changes a cart line or the
\* store, and while a payment is pending the add, +/- and remove handlers
\* act on the cart as Cart.addItem, updateQuantity and removeItem do.
C24_CartClearedOnlyOnCompletion ==
    [][/\ event'.op = "handleCheckoutSubmit"
          => /\ paymentTimers' = paymentTimers + 1
             /\ items' = items
             /\ store' = store
       /\ event'.op \in {"handleCheckout", "closeCheckoutModal"}
          => /\ items' = items
             /\ store' = store
       /\ event'.op = "paymentCompletes"
          => /\ paymentTimers > 0
             /\ paymentTimers' = paymentTimers - 1
             /\ items' = << >>
       /\ paymentTimers > 0 /\ event'.op = "handleAddToCart"
          => \E product \in Products :
                 items' = addItem(items, store, product, 1, TRUE).items
       /\ paymentTimers > 0 /\ event'.op \in {"qtyDecrease", "qtyIncrease"}
          => \E productId \in ProductIds, quantity \in QuantityRange :
                 items' = updateQuantity(items, store, productId, quantity,
                                         TRUE).items
       /\ paymentTimers > 0 /\ event'.op = "removeClick"
          => \E productId \in ProductIds :
                 items' = removeItem(items, store, productId, TRUE).items]_vars

\* A product was added to the cart while a submitted payment was pending:
\* the cart holds the line that was checked out and the new one.
C24_Witness ==
    /\ paymentTimers > 0
    /\ event.op = "handleAddToCart"
    /\ last.op = "addItem"
    /\ ~last.found
    /\ Len(items) = 2
    /\ checkoutSummary.active

C31_NextLoadMoreSkipsFailedPage ==
    [][/\ event'.op = "failure" => currentSkip' = currentSkip
       /\ currentSkip' < currentSkip
          => event'.op \in {"handleSearch", "handleCategoryFilter"}
       /\ /\ event.op = "failure"
          /\ event.request = loadProducts(currentSearch, currentCategory,
                                          currentSkip, TRUE)
          /\ event'.op = "handleLoadMore"
          => /\ event'.request # event.request
             /\ event'.request.skip = currentSkip + limit]_vars

\* C31 amended: a failed loadMore does not roll the page offset back and only
\* a search or a filter lowers it.  With the plain list or a category active
\* the next loadMore requests the page after the one that failed, so the
\* failed page is not requested again; with a search active the request
\* carries no offset and the next loadMore sends the failed request again.
C31_FailedLoadMoreKeepsOffset ==
    [][/\ event'.op = "failure" => currentSkip' = currentSkip
       /\ currentSkip' < currentSkip
          => event'.op \in {"handleSearch", "handleCategoryFilter"}
       /\ /\ event.op = "failure"
          /\ event.request = loadProducts(currentSearch, currentCategory,
                                          currentSkip, TRUE)
          /\ event'.op = "handleLoadMore"
          => IF currentSearch = ""
             THEN /\ event'.request # event.request
                  /\ event'.request.skip = currentSkip + limit
                  /\ event'.request.skip = event.request.skip + limit
             ELSE event'.request = event.request]_vars

\* The second page of a category failed and load more was clicked again: the
\* grid holds the first page only and the request awaited is for the third.
C31_Witness ==
    /\ event.op = "handleLoadMore"
    /\ currentCategory = "beauty"
    /\ currentSkip = 2 * limit
    /\ Len(productsGrid) = limit
    /\ productsGrid[1].category = "beauty"
    /\ requests = SetToBag({CategoryRequest("beauty", 2 * limit, TRUE)})

\* C32: the loading indicator is not counted per request: every handler that
\* sends a request shows it, and the completion of any request, success or
\* failure, hides it, whether or not another request is still awaited.
C32_LoadingFollowsLastStep ==
    /\ event.op \in {"constructor", "handleSearch", "handleCategoryFilter",
                     "handleLoadMore"} => loading
    /\ event.op \in {"response", "failure"} => ~loading

\* One of two overlapping loads has completed: the indicator is hidden while
\* the other request is still awaited.
C32_Witness ==
    /\ event.op \in {"response", "failure"}
    /\ ~loading
    /\ BagCardinality(requests) = 1

\* C37: addItem(P', q) for a product id that already has a line changes
\* only that line's quantity: the line keeps the product snapshot it was
\* inserted with (price, discountPercentage, category) even when P' carries
\* other field values, so the totals are those of the original snapshot.
C37_AddItemKeepsSnapshot ==
    \A quantity \in 1 .. MaxQuantity :
        LET changed == Product(ChangedData)
            i == Find(items, changed.id)
            r == addItem(items, store, changed, quantity, TRUE).items
            raised == [items EXCEPT ![i].quantity = @ + quantity]
            refreshed == [items EXCEPT ![i] = [product |-> changed,
                                               quantity |-> @.quantity + quantity]]
        IN  i # 0 /\ items[i].product # changed =>
                /\ r = raised
                /\ r[i].product.price = items[i].product.price
                /\ r[i].product.discountPercentage
                       = items[i].product.discountPercentage
                /\ r[i].product.category = items[i].product.category
                /\ r[i].product.price # changed.price
                /\ getSubtotal(r) = getSubtotal(raised)
                /\ getSubtotal(r) # getSubtotal(refreshed)

\* The cart holds product 2 and then product 1 with its first snapshot, and
\* addItem has just added to the line of product 1.
C37_Witness ==
    /\ last.op = "addItem"
    /\ last.found
    /\ last.productId = 1
    /\ Len(items) = 2
    /\ items[2].product = Product(CatalogData[1])
    /\ items[2].product # Product(ChangedData)
    /\ items[2].quantity = 2

\* C33: a submitted checkout completes whatever happens during the delay.
\* Closing the modal, opening it again, editing the cart or Buy Now leave the
\* number of pending completions as it is; each submission adds one pending
\* completion of its own; each completion takes one away and leaves the cart
\* without lines, whatever the cart held at that moment.
C33_CompletionIsUnconditional ==
    [][/\ event'.op \in {"closeCheckoutModal", "handleCheckout",
                         "handleAddToCart", "handleBuyNow", "buyNowCheckout",
                         "qtyDecrease", "qtyIncrease", "removeClick",
                         "handleClearCart"}
          => paymentTimers' = paymentTimers
       /\ event'.op = "handleCheckoutSubmit"
          => paymentTimers' = paymentTimers + 1
       /\ event'.op = "paymentCompletes"
          => /\ paymentTimers' = paymentTimers - 1
             /\ paymentTimers' >= 0
             /\ items' = clear(items, store, TRUE).items
             /\ isEmpty(items')]_vars

\* The first of two pending completions has fired on a cart that held lines,
\* with the modal already closed; the second is still pending.
C33_Witness ==
    /\ event.op = "paymentCompletes"
    /\ paymentTimers = 1
    /\ isEmpty(items)
    /\ last.op = "clear"
    /\ orderConfirmation.itemCount > 0

C35_ModalOpensOnlyForNonEmptyCart ==
    [][/\ event'.op \in {"handleCheckout", "buyNowCheckout"}
          => /\ ~isEmpty(items) => checkoutSummary'.active
             /\ isEmpty(items) => checkoutSummary' = checkoutSummary
       /\ ~checkoutSummary.active /\ checkoutSummary'.active
          => /\ event'.op \in {"handleCheckout", "buyNowCheckout"}
             /\ ~isEmpty(items)]_vars

\* The checkout scheduled by Buy Now ran after the cart had been emptied.
C35_Witness ==
    /\ event.op = "buyNowCheckout"
    /\ buyNowTimers = 0
    /\ isEmpty(items)
    /\ last.op \in {"removeItem", "updateQuantity", "clear"}
    /\ ~checkoutSummary.active
    /\ paymentTimers = 0

\* C36: every line of the cart has a quantity of at least 1 after any
\* sequence of the page's cart actions; the minus button on a line of
\* quantity 1 removes the line.
C36_QuantitiesStayPositive ==
    /\ \A i \in 1 .. Len(items) : items[i].quantity >= 1
    /\ event.op = "qtyDecrease" /\ last.quantity = 0
          => ~HasLine(items, last.productId)

\* The minus button was used on a line of quantity 1; the other line stays.
C36_Witness ==
    /\ event.op = "qtyDecrease"
    /\ last.op = "updateQuantity"
    /\ last.quantity = 0
    /\ ~HasLine(items, last.productId)
    /\ Len(items) = 1

====
